---- MODULE Spec2Model ----
(***************************************************************************)
(* A model of the dense bit set of src/src/lib.rs (DenseBitSet and its     *)
(* iterator DenseBitIterator).                                             *)
(*                                                                         *)
(* A machine word (usize) is represented by the set of its bit positions   *)
(* that are 1, position 0 being the least significant bit; the bitwise     *)
(* operators of the source act on that representation.  A Vec<usize> is a  *)
(* sequence of words; the source's 0-based index idx is position idx + 1.  *)
(* A panic (a failed assert!, a failed Vec bounds check) is a result whose *)
(* field panic names it; the receiver of a panicking call is left as the   *)
(* code left it at the point of the panic.                                 *)
(***************************************************************************)
EXTENDS Integers, Sequences, FiniteSets, TLC

(***************************************************************************)
(* Bounds of the model.                                                    *)
(***************************************************************************)
\* the number of operations applied to the sets after their construction
MaxOps == 2
\* the largest bit count requested of with_capacity / with_capacity_and_state
MaxBits == 200
\* the number of calls of next() made on an exhausted iterator
MaxNone == 2
\* the number of iterators created over the same set
MaxIters == 2

(***************************************************************************)
(* Words.                                                                  *)
(***************************************************************************)
BITS_PER_BYTE == 8

\* mem::size_of::<usize>() on the 64-bit target the tests are written for
BYTES_PER_WORD == 8

BITS_PER_WORD == BYTES_PER_WORD * BITS_PER_BYTE

BitPos == 0 .. (BITS_PER_WORD - 1)

\* the usize literal 0
Zero == {}

\* the usize literal 1
One == {0}

\* std::usize::MAX
USIZE_MAX == BitPos

\* 2^k, for the exponents the literals below need
RECURSIVE Pow2(_)
Pow2(k) == IF k = 0 THEN 1 ELSE 2 * Pow2(k - 1)

\* the word of a binary literal of the source that is less than 2^30
Lit(n) == {k \in 0 .. 29 : (n \div Pow2(k)) % 2 = 1}

\* x & y
WAnd(x, y) == x \cap y

\* x | y
WOr(x, y) == x \cup y

\* x ^ y
WXor(x, y) == (x \ y) \cup (y \ x)

\* !x
WNot(x) == BitPos \ x

\* x << k for k < BITS_PER_WORD: the bits shifted out of the word are lost
Shl(x, k) == {j + k : j \in x} \cap BitPos

(***************************************************************************)
(* Addressing.                                                             *)
(***************************************************************************)
get_word_offset(pos) == pos \div BITS_PER_WORD

get_bit_offset(pos) == pos % BITS_PER_WORD

get_bitmask(pos) == Shl(One, get_bit_offset(pos))

(***************************************************************************)
(* Panics.                                                                 *)
(***************************************************************************)
NoPanic == "none"

\* the panic of Vec's Index / IndexMut on an index >= len
IndexOutOfBounds == "index out of bounds"

\* the panic of assert!(self.words() == other.words())
AssertionFailed == "assertion failed: self.words() == other.words()"

(***************************************************************************)
(* DenseBitSet.                                                            *)
(***************************************************************************)
words(self) == Len(self.bits)

len(self) == self.num_bits

with_capacity_and_state_always_extra(num_bits, initial_state) ==
    LET words_to_allocate == (num_bits \div BITS_PER_WORD) + 1
    IN  [num_bits |-> words_to_allocate * BITS_PER_WORD,
         bits |-> [k \in 1 .. words_to_allocate |-> initial_state]]

with_capacity_and_state(num_bits, initial_state) ==
    LET full_words == num_bits \div BITS_PER_WORD
        remaining_bits == num_bits % BITS_PER_WORD
        words_to_allocate == IF remaining_bits > 0 THEN full_words + 1 ELSE full_words
    IN  [num_bits |-> words_to_allocate * BITS_PER_WORD,
         bits |-> [k \in 1 .. words_to_allocate |-> initial_state]]

with_capacity(num_bits) == with_capacity_and_state(num_bits, Zero)

from_bits(bit_pattern) == with_capacity_and_state(BITS_PER_WORD, bit_pattern)

from_vec_len_in_bytes(v) == [num_bits |-> BITS_PER_BYTE * Len(v), bits |-> v]

from_vec(v) == [num_bits |-> BITS_PER_WORD * Len(v), bits |-> v]

\* test: the Vec index panics when the word offset is not below bits.len()
test(self, i) ==
    IF get_word_offset(i) < Len(self.bits)
    THEN [panic |-> NoPanic,
          ret |-> WAnd(self.bits[get_word_offset(i) + 1], get_bitmask(i)) # Zero]
    ELSE [panic |-> IndexOutOfBounds, ret |-> FALSE]

set_returns_prior(self, i) ==
    LET idx == get_word_offset(i) IN
    IF idx < Len(self.bits)
    THEN LET prior == self.bits[idx + 1]
             bitmask == get_bitmask(i)
         IN  [panic |-> NoPanic,
              ret |-> WAnd(prior, bitmask) # Zero,
              self |-> [self EXCEPT !.bits[idx + 1] = WOr(@, bitmask)]]
    ELSE [panic |-> IndexOutOfBounds, ret |-> FALSE, self |-> self]

\* set: `let prior = self.bits[idx]` panics before anything is written
set(self, i) ==
    LET idx == get_word_offset(i) IN
    IF idx < Len(self.bits)
    THEN LET prior == self.bits[idx + 1]
             bitmask == get_bitmask(i)
         IN  [panic |-> NoPanic,
              ret |-> WAnd(prior, bitmask) = Zero,
              self |-> [self EXCEPT !.bits[idx + 1] = WOr(@, bitmask)]]
    ELSE [panic |-> IndexOutOfBounds, ret |-> FALSE, self |-> self]

flip_or_assign(self, i) ==
    IF get_word_offset(i) < Len(self.bits)
    THEN [panic |-> NoPanic,
          self |-> [self EXCEPT !.bits[get_word_offset(i) + 1] = WOr(@, get_bitmask(i))]]
    ELSE [panic |-> IndexOutOfBounds, self |-> self]

flip_unchecked_get(self, i) ==
    IF get_word_offset(i) < Len(self.bits)
    THEN [panic |-> NoPanic,
          self |-> [self EXCEPT !.bits[get_word_offset(i) + 1] = WXor(@, get_bitmask(i))]]
    ELSE [panic |-> NoPanic, self |-> self]

\* flip: the IndexMut panics before the word is written
flip(self, i) ==
    IF get_word_offset(i) < Len(self.bits)
    THEN [panic |-> NoPanic,
          self |-> [self EXCEPT !.bits[get_word_offset(i) + 1] = WXor(@, get_bitmask(i))]]
    ELSE [panic |-> IndexOutOfBounds, self |-> self]

inplace_not(self) ==
    [self EXCEPT !.bits = [k \in 1 .. Len(self.bits) |-> WNot(self.bits[k])]]

\* inplace_or without the assert before its loop
\* `for i in 0..self.bits.len() { self.bits[i] |= other.bits[i] }`: the words
\* below other.bits.len() are combined before the first index beyond them panics
inplace_or_no_assert(self, other) ==
    [panic |-> IF Len(self.bits) > Len(other.bits) THEN IndexOutOfBounds ELSE NoPanic,
     self |-> [self EXCEPT !.bits =
                  [k \in 1 .. Len(self.bits) |->
                      IF k <= Len(other.bits) THEN WOr(self.bits[k], other.bits[k])
                                              ELSE self.bits[k]]]]

inplace_and_not(self, other) ==
    IF words(self) = words(other)
    THEN [panic |-> NoPanic,
          self |-> [self EXCEPT !.bits =
                       [k \in 1 .. Len(self.bits) |-> WAnd(self.bits[k], WNot(other.bits[k]))]]]
    ELSE [panic |-> AssertionFailed, self |-> self]

inplace_and(self, other) ==
    IF words(self) = words(other)
    THEN [panic |-> NoPanic,
          self |-> [self EXCEPT !.bits =
                       [k \in 1 .. Len(self.bits) |-> WAnd(self.bits[k], other.bits[k])]]]
    ELSE [panic |-> AssertionFailed, self |-> self]

inplace_or(self, other) ==
    IF words(self) = words(other)
    THEN [panic |-> NoPanic,
          self |-> [self EXCEPT !.bits =
                       [k \in 1 .. Len(self.bits) |-> WOr(self.bits[k], other.bits[k])]]]
    ELSE [panic |-> AssertionFailed, self |-> self]

inplace_xor_as_or(self, other) == inplace_or(self, other)

inplace_xor(self, other) ==
    IF words(self) = words(other)
    THEN [panic |-> NoPanic,
          self |-> [self EXCEPT !.bits =
                       [k \in 1 .. Len(self.bits) |-> WXor(self.bits[k], other.bits[k])]]]
    ELSE [panic |-> AssertionFailed, self |-> self]

\* and / or / xor: assert, clone self, apply the in-place operation to the
\* clone, return the clone; ret is the Option of the returned set
and(self, other) ==
    IF words(self) = words(other)
    THEN LET output == inplace_and(self, other)
         IN  [panic |-> output.panic,
              ret |-> IF output.panic = NoPanic THEN <<output.self>> ELSE <<>>]
    ELSE [panic |-> AssertionFailed, ret |-> <<>>]

or(self, other) ==
    IF words(self) = words(other)
    THEN LET output == inplace_or(self, other)
         IN  [panic |-> output.panic,
              ret |-> IF output.panic = NoPanic THEN <<output.self>> ELSE <<>>]
    ELSE [panic |-> AssertionFailed, ret |-> <<>>]

xor(self, other) ==
    IF words(self) = words(other)
    THEN LET output == inplace_xor(self, other)
         IN  [panic |-> output.panic,
              ret |-> IF output.panic = NoPanic THEN <<output.self>> ELSE <<>>]
    ELSE [panic |-> AssertionFailed, ret |-> <<>>]

(***************************************************************************)
(* DenseBitIterator.  The iterator borrows the set immutably, so the set   *)
(* cannot change while the iterator lives: collection is the set's value.  *)
(***************************************************************************)
into_iter_from_one(self) == [collection |-> self, index |-> 1]

into_iter(self) == [collection |-> self, index |-> 0]

\* next: ret is the Option<bool> returned
DenseBitIterator_next(it) ==
    IF it.index < len(it.collection)
    THEN LET result == test(it.collection, it.index)
         IN  [panic |-> result.panic,
              ret |-> IF result.panic = NoPanic THEN <<result.ret>> ELSE <<>>,
              it |-> IF result.panic = NoPanic THEN [it EXCEPT !.index = @ + 1] ELSE it]
    ELSE [panic |-> NoPanic, ret |-> <<>>, it |-> it]

\* ExactSizeIterator::len
DenseBitIterator_len(it) == len(it.collection)

(***************************************************************************)
(* Inputs.                                                                 *)
(***************************************************************************)
\* the literals of tests::can_union_bits and tests::can_intersect_bits
PatA == Lit(561)   \* 0b1000110001
PatB == Lit(132)   \* 0b0010000100
PatC == Lit(676)   \* 0b1010100100

\* a call of one of the four constructors
Call(f, n, v, vec) == [f |-> f, n |-> n, v |-> v, vec |-> vec]

Construct(c) ==
    CASE c.f = "with_capacity" -> with_capacity(c.n)
      [] c.f = "with_capacity_and_state" -> with_capacity_and_state(c.n, c.v)
      [] c.f = "from_bits" -> from_bits(c.v)
      [] c.f = "from_vec" -> from_vec(c.vec)

\* the constructor calls that build the receiver
CallsA ==
    { Call("with_capacity", 0, Zero, <<>>),
      Call("with_capacity", 64, Zero, <<>>),
      Call("with_capacity", 100, Zero, <<>>),
      Call("with_capacity_and_state", 100, USIZE_MAX, <<>>),
      Call("from_bits", 0, PatA, <<>>),
      Call("from_vec", 0, Zero, <<PatC, USIZE_MAX>>) }

\* the constructor calls that build the other operand
CallsB ==
    { Call("from_vec", 0, Zero, <<>>),
      Call("from_bits", 0, PatB, <<>>),
      Call("from_bits", 0, PatC, <<>>),
      Call("from_vec", 0, Zero, <<PatA, PatB>>) }

\* the bit indices passed to test, set and flip: the first and last bit of the
\* first word, a bit inside it, the first bit of the second word, and the
\* first bit beyond two words
BitIdx == {0, 4, 63, 64, 128}

\* the fill words and vectors the constructors are called with
FillWords == {Zero, PatA, USIZE_MAX}
FillVecs == {<<>>, <<PatA>>, <<PatB, Zero>>, <<Zero, USIZE_MAX, PatC>>}

(***************************************************************************)
(* State.                                                                  *)
(***************************************************************************)
VARIABLES
    a,        \* the set the operations are called on
    b,        \* the set passed as `other`
    last,     \* the last call: its name, arguments, outcome, and a before it
    prev,     \* the call before the last one
    nops,     \* the number of calls made
    setlog,   \* the <<i, returned>> of the calls of a.set(i) that returned
    pure,     \* a was built by with_capacity and no flip, inplace_not or inplace_* has run
    req,      \* the arguments a constructor is about to be called with
    made,     \* the Option of the set the constructor returned
    it,       \* the iterator over a
    out,      \* the values the iterator has yielded
    prevOut,  \* the values the iterator before it yielded
    lastNext, \* the result of the last call of next()
    nones,    \* the number of calls of next() that returned None
    iters,    \* the number of iterators created
    lenSeen   \* the Option of the value of it.len() read since the last next()

vars == <<a, b, last, prev, nops, setlog, pure, req, made,
          it, out, prevOut, lastNext, nones, iters, lenSeen>>

setVars == <<b, last, prev, nops, setlog, pure>>
newVars == <<req, made>>
iterVars == <<it, out, prevOut, lastNext, nones, iters, lenSeen>>

NoSet == [num_bits |-> 0, bits |-> <<>>]

\* the record of a call: op, the receiver lhs and the argument rhs ("a", "b"),
\* the bit index i, the panic it ended in, the bool ret it returned, the
\* Option out of the set it returned, and a and b as they were before it
NoCall(sa, sb) ==
    [op |-> "none", lhs |-> "-", rhs |-> "-", i |-> 0, panic |-> NoPanic,
     ret |-> FALSE, out |-> <<>>, pre |-> sa, preb |-> sb]

Did(op, lhs, rhs, i, panic, ret, o) ==
    [op |-> op, lhs |-> lhs, rhs |-> rhs, i |-> i, panic |-> panic,
     ret |-> ret, out |-> o, pre |-> a, preb |-> b]

Sel(name) == IF name = "a" THEN a ELSE b

\* the variables of the other two specifications, at rest
SetIdle ==
    /\ b = NoSet
    /\ last = NoCall(NoSet, NoSet)
    /\ prev = NoCall(NoSet, NoSet)
    /\ nops = 0
    /\ setlog = <<>>
    /\ pure = FALSE

\* the record of a call of next(): the Option ret it returned and the index
\* the iterator was at
NoNext == [called |-> FALSE, ret |-> <<>>, panic |-> NoPanic, at |-> 0]

NewIdle ==
    /\ req = Call("none", 0, Zero, <<>>)
    /\ made = <<>>

IterIdle ==
    /\ it = into_iter(NoSet)
    /\ out = <<>>
    /\ prevOut = <<>>
    /\ lastNext = NoNext
    /\ nones = 0
    /\ iters = 0
    /\ lenSeen = <<>>

(***************************************************************************)
(* The operations on a set: specification Spec.                            *)
(***************************************************************************)
Init ==
    /\ \E ca \in CallsA, cb \in CallsB :
          /\ a = Construct(ca)
          /\ b = Construct(cb)
          /\ pure = (ca.f = "with_capacity")
          /\ last = NoCall(Construct(ca), Construct(cb))
          /\ prev = NoCall(Construct(ca), Construct(cb))
    /\ nops = 0
    /\ setlog = <<>>
    /\ NewIdle
    /\ IterIdle

Step(call) ==
    /\ last' = call
    /\ prev' = last
    /\ nops' = nops + 1
    /\ UNCHANGED <<b, newVars, iterVars>>

Test ==
    /\ nops < MaxOps
    /\ \E i \in BitIdx :
          LET r == test(a, i)
          IN  /\ Step(Did("test", "a", "-", i, r.panic, r.ret, <<>>))
              /\ UNCHANGED <<a, setlog, pure>>

Set ==
    /\ nops < MaxOps
    /\ \E i \in BitIdx :
          LET r == set(a, i)
          IN  /\ a' = r.self
              /\ setlog' = IF r.panic = NoPanic THEN Append(setlog, <<i, r.ret>>) ELSE setlog
              /\ Step(Did("set", "a", "-", i, r.panic, r.ret, <<>>))
              /\ UNCHANGED pure

Flip ==
    /\ nops < MaxOps
    /\ \E i \in BitIdx :
          LET r == flip(a, i)
          IN  /\ a' = r.self
              /\ pure' = (pure /\ r.panic # NoPanic)
              /\ Step(Did("flip", "a", "-", i, r.panic, FALSE, <<>>))
              /\ UNCHANGED setlog

InplaceNot ==
    /\ nops < MaxOps
    /\ a' = inplace_not(a)
    /\ pure' = FALSE
    /\ Step(Did("inplace_not", "a", "-", 0, NoPanic, FALSE, <<>>))
    /\ UNCHANGED setlog

InplaceAnd ==
    /\ nops < MaxOps
    /\ LET r == inplace_and(a, b)
       IN  /\ a' = r.self
           /\ pure' = (pure /\ r.panic # NoPanic)
           /\ Step(Did("inplace_and", "a", "b", 0, r.panic, FALSE, <<>>))
    /\ UNCHANGED setlog

InplaceOr ==
    /\ nops < MaxOps
    /\ LET r == inplace_or(a, b)
       IN  /\ a' = r.self
           /\ pure' = (pure /\ r.panic # NoPanic)
           /\ Step(Did("inplace_or", "a", "b", 0, r.panic, FALSE, <<>>))
    /\ UNCHANGED setlog

InplaceXor ==
    /\ nops < MaxOps
    /\ LET r == inplace_xor(a, b)
       IN  /\ a' = r.self
           /\ pure' = (pure /\ r.panic # NoPanic)
           /\ Step(Did("inplace_xor", "a", "b", 0, r.panic, FALSE, <<>>))
    /\ UNCHANGED setlog

\* the receiver and the argument of a copying call: a.op(&b), b.op(&a), a.op(&a)
Operands == {<<"a", "b">>, <<"b", "a">>, <<"a", "a">>}

And ==
    /\ nops < MaxOps
    /\ \E o \in Operands :
          LET r == and(Sel(o[1]), Sel(o[2]))
          IN  Step(Did("and", o[1], o[2], 0, r.panic, FALSE, r.ret))
    /\ UNCHANGED <<a, setlog, pure>>

Or ==
    /\ nops < MaxOps
    /\ \E o \in Operands :
          LET r == or(Sel(o[1]), Sel(o[2]))
          IN  Step(Did("or", o[1], o[2], 0, r.panic, FALSE, r.ret))
    /\ UNCHANGED <<a, setlog, pure>>

Xor ==
    /\ nops < MaxOps
    /\ \E o \in Operands :
          LET r == xor(Sel(o[1]), Sel(o[2]))
          IN  Step(Did("xor", o[1], o[2], 0, r.panic, FALSE, r.ret))
    /\ UNCHANGED <<a, setlog, pure>>

Next ==
    \/ Test
    \/ Set
    \/ Flip
    \/ InplaceNot
    \/ InplaceAnd
    \/ InplaceOr
    \/ InplaceXor
    \/ And
    \/ Or
    \/ Xor

Spec == Init /\ [][Next]_vars

(***************************************************************************)
(* The constructors: specification SpecNew.  The arguments are chosen      *)
(* first, then one constructor is called with them.                        *)
(***************************************************************************)
InitNew ==
    /\ \E n \in 0 .. MaxBits, v \in FillWords, vec \in FillVecs :
          req = Call("pending", n, v, vec)
    /\ made = <<>>
    /\ a = NoSet
    /\ SetIdle
    /\ IterIdle

Returned(f, s) ==
    /\ req' = [req EXCEPT !.f = f]
    /\ made' = <<s>>
    /\ UNCHANGED <<a, setVars, iterVars>>

WithCapacity ==
    /\ req.f = "pending"
    /\ Returned("with_capacity", with_capacity(req.n))

WithCapacityAndState ==
    /\ req.f = "pending"
    /\ Returned("with_capacity_and_state", with_capacity_and_state(req.n, req.v))

FromBits ==
    /\ req.f = "pending"
    /\ Returned("from_bits", from_bits(req.v))

FromVec ==
    /\ req.f = "pending"
    /\ Returned("from_vec", from_vec(req.vec))

NextNew ==
    \/ WithCapacity
    \/ WithCapacityAndState
    \/ FromBits
    \/ FromVec

SpecNew == InitNew /\ [][NextNew]_vars

(***************************************************************************)
(* Iteration: specification SpecIter.  An iterator over a is advanced to   *)
(* its end and MaxNone calls beyond it; once it has returned None, a new   *)
(* iterator over the same set may replace it.                              *)
(***************************************************************************)
InitIter ==
    /\ \E c \in CallsA \cup CallsB :
          /\ a = Construct(c)
          /\ it = into_iter(Construct(c))
    /\ out = <<>>
    /\ prevOut = <<>>
    /\ lastNext = NoNext
    /\ nones = 0
    /\ iters = 1
    /\ lenSeen = <<>>
    /\ SetIdle
    /\ NewIdle

IterNext ==
    /\ nones < MaxNone
    /\ LET r == DenseBitIterator_next(it)
       IN  /\ it' = r.it
           /\ out' = IF r.ret # <<>> THEN Append(out, r.ret[1]) ELSE out
           /\ nones' = IF r.ret = <<>> THEN nones + 1 ELSE nones
           /\ lastNext' = [called |-> TRUE, ret |-> r.ret, panic |-> r.panic,
                           at |-> it.index]
    /\ lenSeen' = <<>>
    /\ UNCHANGED <<a, prevOut, iters, setVars, newVars>>

IterLen ==
    /\ lenSeen = <<>>
    /\ lenSeen' = <<DenseBitIterator_len(it)>>
    /\ UNCHANGED <<a, it, out, prevOut, lastNext, nones, iters, setVars, newVars>>

IntoIter ==
    /\ iters < MaxIters
    /\ nones > 0
    /\ it' = into_iter(a)
    /\ prevOut' = out
    /\ out' = <<>>
    /\ lastNext' = NoNext
    /\ nones' = 0
    /\ iters' = iters + 1
    /\ lenSeen' = <<>>
    /\ UNCHANGED <<a, setVars, newVars>>

NextIter ==
    \/ IterNext
    \/ IterLen
    \/ IntoIter

SpecIter == InitIter /\ [][NextIter]_vars

(***************************************************************************)
(* Properties.                                                             *)
(***************************************************************************)
\* the bit indices below the capacity of a set
Bits(s) == 0 .. (len(s) - 1)

\* test(i) on an index the set has
Bit(s, i) == test(s, i).ret

\* the set the receiver / the argument of the last call was before the call
Lhs(c) == IF c.lhs = "a" THEN c.pre ELSE c.preb
Rhs(c) == IF c.rhs = "a" THEN c.pre ELSE c.preb

\* C1: with_capacity(n) and with_capacity_and_state(n, v) allocate exactly
\* ceil(n / word_width) words, every word 0 (resp. v), and len() is the
\* smallest multiple of the word width that is >= n; n = 100 gives len() = 128
\* and words() = 2.
C1_CapacityRoundsUp ==
    (made # <<>> /\ req.f \in {"with_capacity", "with_capacity_and_state"}) =>
        LET s == made[1]
            fill == IF req.f = "with_capacity" THEN Zero ELSE req.v
        IN  /\ words(s) * BITS_PER_WORD >= req.n
            /\ (words(s) - 1) * BITS_PER_WORD < req.n
            /\ \A k \in 1 .. words(s) : s.bits[k] = fill
            /\ len(s) >= req.n
            /\ len(s) % BITS_PER_WORD = 0
            /\ len(s) - BITS_PER_WORD < req.n
            /\ (req.n = 100 => (len(s) = 128 /\ words(s) = 2))
            /\ (req.n = 0 => (len(s) = 0 /\ words(s) = 0))

C1_Witness ==
    /\ made # <<>>
    /\ req.f = "with_capacity_and_state"
    /\ req.n = 100
    /\ req.v = USIZE_MAX
    /\ made[1] = [num_bits |-> 128, bits |-> <<USIZE_MAX, USIZE_MAX>>]

\* C2: for a set built by any constructor and after any sequence of
\* operations, and for the results of and / or / xor, words() * word_width
\* = len(); no operation changes words() or len().
C2_WordsTimesWidthIsLen ==
    /\ words(a) * BITS_PER_WORD = len(a)
    /\ words(b) * BITS_PER_WORD = len(b)
    /\ last.out # <<>> => words(last.out[1]) * BITS_PER_WORD = len(last.out[1])
    /\ words(a) = words(last.pre) /\ len(a) = len(last.pre)
    /\ words(b) = words(last.preb) /\ len(b) = len(last.preb)
    /\ words(last.pre) = words(prev.pre) /\ len(last.pre) = len(prev.pre)

C2_Witness ==
    /\ prev.op = "flip" /\ prev.panic = NoPanic
    /\ last.op = "inplace_xor" /\ last.panic = NoPanic
    /\ words(a) = 2 /\ len(a) = 128
    /\ a # last.pre

\* C3: for i < len(): a set fresh from with_capacity has test(i) false;
\* set(i) returns true iff test(i) was false just before; after set(i),
\* test(i) is true and every other bit is as before; in a sequence of set
\* calls on a fresh set, set(i) returns true exactly on the first call for
\* that bit, and a call that returns false leaves the words unchanged.
C3_SetReturnsFirstTransition ==
    /\ (pure /\ setlog = <<>>) => \A i \in Bits(a) : ~Bit(a, i)
    /\ (last.op = "set" /\ last.i < len(last.pre)) =>
          /\ last.ret = ~Bit(last.pre, last.i)
          /\ Bit(a, last.i)
          /\ \A j \in Bits(a) \ {last.i} : Bit(a, j) = Bit(last.pre, j)
          /\ (~last.ret => a.bits = last.pre.bits)
    /\ pure =>
          \A k \in 1 .. Len(setlog) :
              setlog[k][2] = (\A j \in 1 .. (k - 1) : setlog[j][1] # setlog[k][1])

C3_Witness ==
    /\ pure
    /\ prev.op = "set" /\ prev.i = 64 /\ prev.ret
    /\ last.op = "set" /\ last.i = 64 /\ ~last.ret
    /\ Bit(a, 64) /\ ~Bit(prev.pre, 64)

InplaceOps == {"inplace_and", "inplace_or", "inplace_xor"}
CopyingOps == {"and", "or", "xor"}

\* C4: a combination (in place or copying) of operands whose word counts
\* differ fails with the size-mismatch assertion before any word is modified:
\* both operands keep their words and capacity, and no set is returned.
C4_SizeMismatchFailsFirst ==
    (last.op \in InplaceOps \cup CopyingOps /\ words(Lhs(last)) # words(Rhs(last))) =>
        /\ last.panic = AssertionFailed
        /\ a = last.pre
        /\ b = last.preb
        /\ last.out = <<>>

C4_Witness ==
    /\ last.op = "inplace_or"
    /\ words(last.pre) = 2 /\ words(last.preb) = 1
    /\ last.preb.bits[1] \ last.pre.bits[1] # {}
    /\ last.panic = AssertionFailed

\* C5: test(i), set(i) and flip(i) with i >= len() (any i on a set without
\* capacity) fail with the out-of-range panic and leave the words and the
\* capacity as they were; with i < len() none of them fails.
C5_OutOfRangeFails ==
    last.op \in {"test", "set", "flip"} =>
        /\ last.i >= len(last.pre) =>
              /\ last.panic = IndexOutOfBounds
              /\ a = last.pre
        /\ last.i < len(last.pre) => last.panic = NoPanic

C5_Witness ==
    /\ last.op = "flip"
    /\ len(last.pre) = 64
    /\ last.i = 64
    /\ last.panic = IndexOutOfBounds

\* C6: for A and B of equal word count and every i < len(): A.and(B).test(i)
\* = A.test(i) /\ B.test(i), A.or(B).test(i) = A.test(i) \/ B.test(i),
\* A.xor(B).test(i) = (A.test(i) # B.test(i)); the result has A's word count
\* and capacity and is what the in-place operation leaves in a copy of A;
\* and / or / xor leave A and B unchanged and inplace_* never changes other.
C6_BitwiseResults ==
    /\ (last.op \in CopyingOps /\ words(Lhs(last)) = words(Rhs(last))) =>
          /\ last.panic = NoPanic
          /\ last.out # <<>>
          /\ LET A == Lhs(last)
                 B == Rhs(last)
                 R == last.out[1]
             IN  /\ words(R) = words(A)
                 /\ len(R) = len(A)
                 /\ \A i \in Bits(A) :
                       Bit(R, i) = CASE last.op = "and" -> (Bit(A, i) /\ Bit(B, i))
                                     [] last.op = "or" -> (Bit(A, i) \/ Bit(B, i))
                                     [] last.op = "xor" -> (Bit(A, i) # Bit(B, i))
                 /\ R = CASE last.op = "and" -> inplace_and(A, B).self
                          [] last.op = "or" -> inplace_or(A, B).self
                          [] last.op = "xor" -> inplace_xor(A, B).self
                 /\ (last.op = "or" /\ A = from_bits(PatA) /\ B = from_bits(PatB))
                       => R = from_bits(Lit(693))
                 /\ (last.op = "and" /\ A = from_bits(PatA) /\ B = from_bits(PatC))
                       => R = from_bits(Lit(544))
          /\ a = last.pre
          /\ b = last.preb
    /\ last.op \in InplaceOps => b = last.preb

C6_Witness ==
    /\ prev.op = "set" /\ prev.ret
    /\ last.op = "xor" /\ last.lhs = "a" /\ last.rhs = "b"
    /\ words(a) = 2
    /\ last.out # <<>>
    /\ last.out[1] # a
    /\ last.out[1] # b

\* C7: for A and B of equal word count, A.and(B) = B.and(A) and A.or(B) =
\* B.or(A); A.xor(B) evaluated again gives the same set; A.xor(A) has A's
\* capacity and every word 0.
C7_CommutativeAndSelfXor ==
    /\ (last.op = "and" /\ words(Lhs(last)) = words(Rhs(last))) =>
          last.out = and(Rhs(last), Lhs(last)).ret
    /\ (last.op = "or" /\ words(Lhs(last)) = words(Rhs(last))) =>
          last.out = or(Rhs(last), Lhs(last)).ret
    /\ (last.op = "xor" /\ prev.op = "xor"
            /\ last.lhs = prev.lhs /\ last.rhs = prev.rhs) =>
          last.out = prev.out
    /\ (last.op = "xor" /\ last.lhs = last.rhs) =>
          /\ last.out # <<>>
          /\ len(last.out[1]) = len(Lhs(last))
          /\ words(last.out[1]) = words(Lhs(last))
          /\ \A k \in 1 .. words(last.out[1]) : last.out[1].bits[k] = Zero

C7_Witness ==
    /\ prev.op = "and" /\ prev.lhs = "a" /\ prev.rhs = "b"
    /\ last.op = "and" /\ last.lhs = "b" /\ last.rhs = "a"
    /\ last.out # <<>>
    /\ last.out = prev.out
    /\ last.out[1] # a
    /\ last.out[1] # b
    /\ last.out[1].bits[1] # Zero

\* C8: inplace_not complements every bit of every word (padding included)
\* and applied twice in a row restores the words; flip(i), i < len(), negates
\* test(i), changes no other bit, and applied twice in a row restores the words.
C8_NotAndFlipAreInvolutions ==
    /\ last.op = "inplace_not" =>
          /\ words(a) = words(last.pre)
          /\ \A k \in 1 .. words(a) : \A j \in BitPos :
                (j \in a.bits[k]) # (j \in last.pre.bits[k])
    /\ (last.op = "inplace_not" /\ prev.op = "inplace_not") => a.bits = prev.pre.bits
    /\ (last.op = "flip" /\ last.i < len(last.pre)) =>
          /\ Bit(a, last.i) = ~Bit(last.pre, last.i)
          /\ \A j \in Bits(a) \ {last.i} : Bit(a, j) = Bit(last.pre, j)
    /\ (last.op = "flip" /\ prev.op = "flip" /\ last.i = prev.i
            /\ last.i < len(last.pre)) =>
          a.bits = prev.pre.bits

C8_Witness ==
    /\ prev.op = "flip" /\ prev.i = 63
    /\ last.op = "flip" /\ last.i = 63
    /\ last.pre # a
    /\ a = prev.pre
    /\ a.bits[1] # Zero

\* C9: a fresh iterator over a set of capacity c yields exactly c booleans,
\* the k-th being test(k); every call after the c-th returns None; iteration
\* does not modify the set; a second iterator yields the same sequence.
C9_IterationYieldsTestInOrder ==
    /\ it.collection = a
    /\ Len(out) = it.index
    /\ Len(out) <= len(a)
    /\ \A k \in 1 .. Len(out) : out[k] = Bit(a, k - 1)
    /\ lastNext.called =>
          /\ lastNext.panic = NoPanic
          /\ (lastNext.ret = <<>>) = (lastNext.at >= len(a))
          /\ lastNext.ret # <<>> => lastNext.ret[1] = Bit(a, lastNext.at)
    /\ nones > 0 => Len(out) = len(a)
    /\ iters > 1 =>
          /\ Len(prevOut) = len(a)
          /\ \A k \in 1 .. Len(out) : out[k] = prevOut[k]

C9_Witness ==
    /\ iters = 2
    /\ nones = 2
    /\ len(a) = 128
    /\ Len(out) = 128
    /\ out = prevOut
    /\ \E k \in 1 .. 128 : out[k]
    /\ \E k \in 1 .. 128 : ~out[k]

\* C10: the length the iterator reports through len() is the number of
\* values next() will still yield: c - k after k values have been yielded.
C10_LenIsRemaining ==
    lenSeen # <<>> => lenSeen[1] = len(a) - Len(out)

====
